---- MODULE Spec2Model ----
(***************************************************************************)
(* Bulk CSV ingestion (UploadInfoController) of the graph back end.        *)
(* A text value is a sequence of one-character strings, so that parseInt,  *)
(* parseFloat, toLowerCase and the identifier grammar are computed on the  *)
(* characters.  A CSV row is a function from column names to text values.  *)
(* The graph store is the external collaborator: its CREATE, MATCH and     *)
(* MERGE are modelled for the three query templates the controller builds. *)
(***************************************************************************)
EXTENDS Integers, Sequences, FiniteSets, TLC

VARIABLES
    nodes,        \* store: nodes in creation order, [label, ID, props]
    edges,        \* store: set of [start, type, end, props], endpoints are indices of nodes
    instance,     \* Neo4jDriverSingleton.instance is set
    pc,           \* position of the request in uploadCSV
    file,         \* req.file: NoFile or [name, rows, malformed]
    records,      \* rows pushed by the "data" handler
    idx,          \* index in records of the row the import loop is at
    startFound,   \* startResult.records.length of the row at idx
    session,      \* the request's session: "none", "open", "closed"
    responses,    \* responses sent for the request: [status, body, imported]
    thrown,       \* error raised by the store in this request, or "none"
    outcome,      \* per processed row: "realized", "skipped" or "failed"
    lastQuery,    \* the last query sent to the store: [kind, idents, row]
    nreq,         \* number of requests received so far
    edges0,       \* edges when the request was received
    nodes0,       \* nodes when the request was received
    rerun,        \* the request carries the file the request before it imported
    reqs,         \* uploads in flight at once: per request its locals of uploadCSV
    drv           \* Neo4jDriverSingleton: the field, the drivers made, the closeDriver calls

vars == <<nodes, edges, instance, pc, file, records, idx,
          startFound, session, responses, thrown, outcome, lastQuery,
          nreq, edges0, nodes0, rerun, reqs, drv>>

-----------------------------------------------------------------------------
(* Bounds *)

MaxRows == 2
MaxRequests == 2
MaxLen == 3
MaxDrivers == 4
MaxPending == 2
MaxOps == 3

-----------------------------------------------------------------------------
(* Text *)

Digits == <<"0", "1", "2", "3", "4", "5", "6", "7", "8", "9">>
Upper == <<"A", "B", "C", "D", "E", "F", "G", "H", "I", "J", "K", "L", "M",
           "N", "O", "P", "Q", "R", "S", "T", "U", "V", "W", "X", "Y", "Z">>
Lower == <<"a", "b", "c", "d", "e", "f", "g", "h", "i", "j", "k", "l", "m",
           "n", "o", "p", "q", "r", "s", "t", "u", "v", "w", "x", "y", "z">>

Range(s) == {s[i] : i \in DOMAIN s}

IsDigit(c) == c \in Range(Digits)
IsLetter(c) == c \in Range(Upper) \cup Range(Lower)
IsSpace(c) == c \in {" ", "\t"}

DigitValue(c) == (CHOOSE i \in DOMAIN Digits : Digits[i] = c) - 1

\* String.prototype.toLowerCase
LowerChar(c) ==
    IF c \in Range(Upper) THEN Lower[CHOOSE i \in DOMAIN Upper : Upper[i] = c] ELSE c
ToLowerCase(s) == [i \in DOMAIN s |-> LowerChar(s[i])]

\* the value JavaScript yields for a column the row does not have
Undefined == <<"u", "n", "d", "e", "f", "i", "n", "e", "d">>

Get(row, col) == IF col \in DOMAIN row THEN row[col] ELSE Undefined

\* identifier grammar: letters, digits, underscore, not starting with a digit
IsIdentifier(s) ==
    /\ Len(s) > 0
    /\ ~IsDigit(s[1])
    /\ \A i \in DOMAIN s : IsLetter(s[i]) \/ IsDigit(s[i]) \/ s[i] = "_"

-----------------------------------------------------------------------------
(* Numbers: m * 10^(-e), normalised; NaN apart *)

NaN == [t |-> "nan"]

RECURSIVE Normalise(_, _)
Normalise(m, e) ==
    IF e > 0 /\ m % 10 = 0 THEN Normalise(m \div 10, e - 1)
    ELSE [t |-> "num", m |-> m, e |-> e]

RECURSIVE SkipSpace(_)
SkipSpace(s) == IF s # <<>> /\ IsSpace(s[1]) THEN SkipSpace(Tail(s)) ELSE s

\* length of the longest prefix of decimal digits
RECURSIVE DigitRun(_)
DigitRun(s) == IF s # <<>> /\ IsDigit(s[1]) THEN 1 + DigitRun(Tail(s)) ELSE 0

\* value of the first n characters of s, all digits, after the value acc
RECURSIVE DigitsValue(_, _, _)
DigitsValue(s, n, acc) ==
    IF n = 0 THEN acc ELSE DigitsValue(Tail(s), n - 1, acc * 10 + DigitValue(s[1]))

\* parseInt(text): leading white space, sign, the decimal digits that follow
ParseInt(s) ==
    LET t == SkipSpace(s)
        signed == t # <<>> /\ t[1] \in {"-", "+"}
        u == IF signed THEN Tail(t) ELSE t
        n == DigitRun(u)
        v == DigitsValue(u, n, 0)
    IN  IF n = 0 THEN NaN
        ELSE Normalise(IF signed /\ t[1] = "-" THEN 0 - v ELSE v, 0)

\* parseFloat(text): leading white space, sign, digits, "." and digits;
\* whatever follows the longest numeric prefix is ignored
ParseFloat(s) ==
    LET t == SkipSpace(s)
        signed == t # <<>> /\ t[1] \in {"-", "+"}
        u == IF signed THEN Tail(t) ELSE t
        ni == DigitRun(u)
        rest == SubSeq(u, ni + 1, Len(u))
        dot == rest # <<>> /\ rest[1] = "."
        nf == IF dot THEN DigitRun(Tail(rest)) ELSE 0
        v == DigitsValue(IF dot THEN Tail(rest) ELSE <<>>, nf, DigitsValue(u, ni, 0))
    IN  IF ni + nf = 0 THEN NaN
        ELSE Normalise(IF signed /\ t[1] = "-" THEN 0 - v ELSE v, nf)

\* isNaN answers false for every value
IsNaNNever(v) == FALSE

IsNaN(v) == v = NaN

\* the store's equality of two property values: NaN equals nothing
StoreEq(a, b) == a # NaN /\ b # NaN /\ a = b

-----------------------------------------------------------------------------
(* Inputs: the text values, rows and files of the uploads *)

T_Product == <<"P", "r", "o", "d", "u", "c", "t">>
T_ProDuct == <<"P", "r", "o", "-", "d", "u", "c", "t">>
T_Invoice == <<"I", "n", "v", "o", "i", "c", "e">>
T_Contains == <<"C", "O", "N", "T", "A", "I", "N", "S">>
T_ConTains == <<"C", "O", "N", "-", "T", "A", "I", "N", "S">>
T_Widget == <<"W", "i", "d", "g", "e", "t">>
T_NodesCsv == <<"n", "o", "d", "e", "s", ".", "c", "s", "v">>
T_RelationsCsv == <<"r", "e", "l", "a", "t", "i", "o", "n", "s", ".", "c", "s", "v">>
T_Relations == <<"r", "e", "l", "a", "t", "i", "o", "n", "s">>

\* rows of a node file with header ID,Type,Name,Price
NodeRows ==
    [ID : {<<"7">>}, Type : {T_Product, T_ProDuct}, Name : {T_Widget},
     Price : {<<"1", "9", ".", "9", "9">>}]

\* rows of a relationship file with header
\* Start_Node_Type,Start_ID,End_Node_Type,End_ID,Relation,Quantity
RelRow(endId, relation, quantity) ==
    [Start_Node_Type |-> T_Invoice, Start_ID |-> <<"1">>,
     End_Node_Type |-> T_Product, End_ID |-> endId,
     Relation |-> relation, Quantity |-> quantity]

RelRows ==
    {RelRow(<<"7">>, T_Contains, <<"3">>), RelRow(<<"7">>, T_Contains, <<"5">>),
     RelRow(<<"8">>, T_Contains, <<"3">>), RelRow(<<"7">>, T_ConTains, <<"3">>)}

SeqsUpTo(S, n) == UNION {[1..k -> S] : k \in 0..n}

NoFile == [name |-> <<>>, rows |-> <<>>, malformed |-> FALSE, attached |-> FALSE]

\* req.file: the name, the well-formed rows in file order, and whether a
\* line with a wrong column count follows them
Files ==
    [name : {T_NodesCsv}, rows : SeqsUpTo(NodeRows, MaxRows),
     malformed : BOOLEAN, attached : {TRUE}]
    \cup
    [name : {T_RelationsCsv}, rows : SeqsUpTo(RelRows, MaxRows),
     malformed : BOOLEAN, attached : {TRUE}]

\* text values of a relationship property column: the examples of the
\* conversion and every text of at most MaxLen characters of a small alphabet
T_True == <<"t", "r", "u", "e">>
T_TrueCapital == <<"T", "r", "u", "e">>
T_False == <<"f", "a", "l", "s", "e">>
T_Abc == <<"a", "b", "c">>
T_42 == <<"4", "2">>
T_42_5 == <<"4", "2", ".", "5">>
T_12abc == <<"1", "2", "a", "b", "c">>
T_Date == <<"2", "0", "2", "4", "-", "0", "1", "-", "3", "1">>
T_SpTrueSp == <<" ", "t", "r", "u", "e", " ">>
T_Sp42Sp == <<" ", "4", "2", " ">>
CoerceTexts ==
    {T_42, T_42_5, T_True, T_TrueCapital, T_False, T_Abc, <<>>,
     T_12abc, T_Date, T_SpTrueSp, T_Sp42Sp}
    \cup SeqsUpTo({"4", "2", ".", "-", " ", "a"}, MaxLen)

\* file names on both sides of the routing test
T_RelationsCapitalCsv == <<"R", "e", "l", "a", "t", "i", "o", "n", "s", ".", "c", "s", "v">>
T_MyRelationsCsv == <<"m", "y", "_", "r", "e", "l", "a", "t", "i", "o", "n", "s", "_", "2", ".", "c", "s", "v">>
FileNames == {T_NodesCsv, T_RelationsCsv, T_RelationsCapitalCsv, T_MyRelationsCsv}

NodeRow7 == [ID |-> <<"7">>, Type |-> T_Product, Name |-> T_Widget,
             Price |-> <<"1", "9", ".", "9", "9">>]

\* files of one relationship row for every property text, and files of node
\* rows and relationship rows under every file name
WideFiles ==
    [name : {T_RelationsCsv},
     rows : {<<RelRow(<<"7">>, T_Contains, q)>> : q \in CoerceTexts},
     malformed : {FALSE}, attached : {TRUE}]
    \cup
    [name : FileNames,
     rows : SeqsUpTo({NodeRow7, RelRow(<<"7">>, T_Contains, <<"3">>)}, MaxRows),
     malformed : BOOLEAN, attached : {TRUE}]

\* the uploads that run at once
Requests == {1, 2}

\* the locals of an upload that has not been received: no file, no session
NoRequest ==
    [pc |-> "idle", file |-> NoFile, records |-> <<>>, idx |-> 0, startFound |-> 0,
     session |-> 0, closed |-> FALSE, responses |-> <<>>,
     lastQuery |-> [kind |-> "none", row |-> 0, session |-> 0, record |-> <<>>]]

\* the singleton after startServer: driver 1 is in the field and open, and no
\* closeDriver call is waiting
DriverAtStart ==
    [instance |-> 1, made |-> 1, open |-> {1}, closing |-> <<>>, got |-> 1]

\* business keys: a whole number, a number with a fraction, a text
KeyTexts == {<<"7">>, <<"7", ".", "5">>, T_Abc}

\* files of one node row with header ID,Type,Code, the Code column repeating
\* the ID text, and files of one relationship row ending at the same key
KeyFiles ==
    [name : {T_NodesCsv},
     rows : {<<[ID |-> k, Type |-> T_Product, Code |-> k]>> : k \in KeyTexts},
     malformed : {FALSE}, attached : {TRUE}]
    \cup
    [name : {T_RelationsCsv},
     rows : {<<RelRow(k, T_Contains, <<"3">>)>> : k \in KeyTexts},
     malformed : {FALSE}, attached : {TRUE}]

\* files of the uploads that run at once: node rows or relationship rows
ConcFiles ==
    [name : {T_NodesCsv}, rows : SeqsUpTo({NodeRow7}, MaxRows) \ {<<>>},
     malformed : {FALSE}, attached : {TRUE}]
    \cup
    [name : {T_RelationsCsv},
     rows : SeqsUpTo({RelRow(<<"7">>, T_Contains, <<"3">>)}, MaxRows) \ {<<>>},
     malformed : {FALSE}, attached : {TRUE}]

\* nodes the store may hold when the server starts
Invoice1 == [label |-> T_Invoice, ID |-> ParseInt(<<"1">>), props |-> [Name |-> T_Widget]]
Product7 == [label |-> T_Product, ID |-> ParseInt(<<"7">>), props |-> [Name |-> T_Widget]]
InitialNodes == {<<>>, <<Invoice1, Product7>>}

-----------------------------------------------------------------------------
(* The controller's pure steps *)

\* String.prototype.includes
Includes(s, sub) ==
    \E i \in 0..(Len(s) - Len(sub)) : SubSeq(s, i + 1, i + Len(sub)) = sub

\* the file name is lowered before the test
IsRelationsFileAnyCase(name) == Includes(ToLowerCase(name), T_Relations)

IsRelationsFile(name) == Includes(name, T_Relations)

\* const { ID, Type, ...properties } = record
NodeProperties(record) == [k \in DOMAIN record \ {"ID", "Type"} |-> record[k]]

excludedKeys == {"Start_Node_Type", "Start_ID", "End_Node_Type", "End_ID", "Relation"}

\* the boolean test compares the value as written
CoerceCaseSensitive(value) ==
    IF ~IsNaN(ParseFloat(value)) THEN ParseFloat(value)
    ELSE IF value \in {<<"t", "r", "u", "e">>, <<"f", "a", "l", "s", "e">>}
         THEN [t |-> "bool", b |-> value = <<"t", "r", "u", "e">>]
         ELSE [t |-> "str", s |-> value]

\* the type conversion of one relationship property
Coerce(value) ==
    IF ~IsNaN(ParseFloat(value)) THEN ParseFloat(value)
    ELSE IF ToLowerCase(value) \in {<<"t", "r", "u", "e">>, <<"f", "a", "l", "s", "e">>}
         THEN [t |-> "bool", b |-> ToLowerCase(value) = <<"t", "r", "u", "e">>]
         ELSE [t |-> "str", s |-> value]

\* the edge parameters are built from every column of the row
RelationParametersAll(record) == [k \in DOMAIN record |-> Coerce(record[k])]

\* the parameters of the MERGE query other than startId and endId
RelationParameters(record) ==
    [k \in DOMAIN record \ excludedKeys |-> Coerce(record[k])]

-----------------------------------------------------------------------------
(* The store's part: parsing and executing the three query templates *)

NoQuery == [kind |-> "none", idents |-> <<>>, row |-> 0]

\* a query text parses only if every name interpolated into it is an identifier
QueryParses(idents) == \A i \in DOMAIN idents : IsIdentifier(idents[i])

\* CREATE (n:Type {ID: $ID, k1: $k1, ...}): with no property column the map
\* literal is "{ID: $ID,  }", which the store rejects as well
CreateParses(label, keys) == QueryParses(<<label>>) /\ keys # {}

\* MATCH (x:label {ID: $id})
MatchNodes(ns, label, id) ==
    {i \in DOMAIN ns : ns[i].label = label /\ StoreEq(ns[i].ID, id)}

\* MERGE (n:label {ID: $ID}) SET n += props: a node is created only when no
\* node has the label and the key
MergeNodeQuery(ns, label, id, props) ==
    IF MatchNodes(ns, label, id) # {} THEN ns
    ELSE Append(ns, [label |-> label, ID |-> id, props |-> props])

\* CREATE (n:label {ID: $ID, ...props}): one more node, whatever the store holds
CreateQuery(ns, label, id, props) ==
    Append(ns, [label |-> label, ID |-> id, props |-> props])

\* ... RETURN x LIMIT 1: the number of records returned
LookupCount(ns, label, id) == IF MatchNodes(ns, label, id) = {} THEN 0 ELSE 1

\* an edge matches the pattern (s)-[r:rel {props}]->(e)
EdgeMatches(x, s, rel, e, props) ==
    /\ x.start = s /\ x.type = rel /\ x.end = e
    /\ \A k \in DOMAIN props : k \in DOMAIN x.props /\ StoreEq(x.props[k], props[k])

\* MERGE (start:sl {ID: $startId})-[r:rel {props}]->(end:el {ID: $endId}), the
\* whole path in one pattern: when no such path is there, all of it is created
MergeWholePath(ns, es, sl, sid, el, eid, rel, props) ==
    LET pairs == MatchNodes(ns, sl, sid) \X MatchNodes(ns, el, eid)
        found == \E p \in pairs : \E x \in es : EdgeMatches(x, p[1], rel, p[2], props)
    IN  IF found THEN [nodes |-> ns, edges |-> es]
        ELSE [nodes |-> ns \o <<[label |-> sl, ID |-> sid, props |-> << >>],
                                [label |-> el, ID |-> eid, props |-> << >>]>>,
              edges |-> es \cup {[start |-> Len(ns) + 1, type |-> rel,
                                  end |-> Len(ns) + 2, props |-> props]}]

\* MATCH (start:sl {ID: $startId}) MATCH (end:el {ID: $endId})
\* MERGE (start)-[r:rel {props}]->(end): for every matched pair, the edge is
\* created unless an edge matching the whole pattern is already there
MergeQuery(ns, es, sl, sid, el, eid, rel, props) ==
    LET pairs == MatchNodes(ns, sl, sid) \X MatchNodes(ns, el, eid)
        missing == {p \in pairs : ~\E x \in es : EdgeMatches(x, p[1], rel, p[2], props)}
    IN  [nodes |-> ns,
         edges |-> es \cup {[start |-> p[1], type |-> rel, end |-> p[2], props |-> props] :
                            p \in missing}]

-----------------------------------------------------------------------------
(* State *)

Init ==
    /\ nodes \in InitialNodes
    /\ edges = {}
    /\ instance = TRUE
    /\ pc = "idle"
    /\ file = NoFile
    /\ records = <<>>
    /\ idx = 0
    /\ startFound = 0
    /\ session = "none"
    /\ responses = <<>>
    /\ thrown = "none"
    /\ outcome = <<>>
    /\ lastQuery = NoQuery
    /\ nreq = 0
    /\ edges0 = {}
    /\ nodes0 = nodes
    /\ rerun = FALSE
    /\ reqs = [r \in Requests |-> NoRequest]
    /\ drv = DriverAtStart

\* what every request starts from
NewRequest(f) ==
    /\ nreq < MaxRequests
    /\ nreq' = nreq + 1
    /\ file' = f
    /\ edges0' = edges
    /\ nodes0' = nodes
    /\ records' = <<>>
    /\ idx' = 0
    /\ startFound' = 0
    /\ thrown' = "none"
    /\ outcome' = <<>>
    /\ lastQuery' = NoQuery
    /\ UNCHANGED <<nodes, edges, reqs, drv>>

\* the session is taken before req.file is tested
UploadNoFileAfterSession ==
    /\ pc = "idle"
    /\ NewRequest(NoFile)
    /\ responses' = <<[status |-> 400, body |-> "error", imported |-> 0]>>
    /\ session' = "open"
    /\ rerun' = FALSE
    /\ pc' = "done"
    /\ UNCHANGED instance

\* uploadCSV, req.file missing: 400 and return
UploadNoFile ==
    /\ pc = "idle"
    /\ NewRequest(NoFile)
    /\ responses' = <<[status |-> 400, body |-> "error", imported |-> 0]>>
    /\ session' = "none"
    /\ rerun' = FALSE
    /\ pc' = "done"
    /\ UNCHANGED instance

\* uploadCSV with file f: driver, session, records, stream and its handlers
StartUpload(f) ==
    /\ NewRequest(f)
    /\ instance' = TRUE
    /\ session' = "open"
    /\ responses' = <<>>
    /\ pc' = "reading"

\* a client uploads a file
UploadFile ==
    /\ pc = "idle"
    /\ rerun' = FALSE
    /\ \E f \in Files : StartUpload(f)

\* a client uploads a file of the wider input set
UploadWideFile ==
    /\ pc = "idle"
    /\ rerun' = FALSE
    /\ \E f \in WideFiles : StartUpload(f)

\* a client uploads a node file or a relationship file of the key files
UploadKeyFile ==
    /\ pc = "idle"
    /\ rerun' = FALSE
    /\ \E f \in KeyFiles : StartUpload(f)

\* the client of the finished request uploads its file again
UploadAgain ==
    /\ pc = "done"
    /\ file.attached
    /\ rerun' = (responses[Len(responses)].status = 200)
    /\ StartUpload(file)

\* the finished request is gone: its locals are dropped
RequestEnds ==
    /\ pc = "done"
    /\ pc' = "idle"
    /\ file' = NoFile
    /\ records' = <<>>
    /\ idx' = 0
    /\ startFound' = 0
    /\ session' = "none"
    /\ responses' = <<>>
    /\ thrown' = "none"
    /\ outcome' = <<>>
    /\ lastQuery' = NoQuery
    /\ edges0' = {}
    /\ nodes0' = nodes
    /\ rerun' = FALSE
    /\ UNCHANGED <<nodes, edges, instance, nreq, reqs, drv>>

\* where the import loop goes after the row at i
LoopAt(i, rowpc) == IF i > Len(records) THEN "imported" ELSE rowpc

\* "data" handler
ReaderData ==
    /\ pc = "reading"
    /\ Len(records) < Len(file.rows)
    /\ records' = Append(records, file.rows[Len(records) + 1])
    /\ UNCHANGED <<nodes, edges, instance, pc, file, idx, startFound,
                   session, responses, thrown, outcome, lastQuery, nreq, edges0, nodes0, rerun, reqs, drv>>

\* the reader's error does not stop the stream: the "end" handler runs too
ReaderErrorThenEnd ==
    /\ pc = "reading"
    /\ Len(records) = Len(file.rows)
    /\ file.malformed
    /\ responses' = Append(responses, [status |-> 500, body |-> "error", imported |-> 0])
    /\ idx' = 1
    /\ pc' = LoopAt(1, IF IsRelationsFile(file.name) THEN "relStart" ELSE "nodeRow")
    /\ UNCHANGED <<nodes, edges, instance, file, records, startFound,
                   session, thrown, outcome, lastQuery, nreq, edges0, nodes0, rerun, reqs, drv>>

\* "error" handler: the reader met the line with the wrong column count
ReaderError ==
    /\ pc = "reading"
    /\ Len(records) = Len(file.rows)
    /\ file.malformed
    /\ responses' = Append(responses, [status |-> 500, body |-> "error", imported |-> 0])
    /\ pc' = "done"
    /\ UNCHANGED <<nodes, edges, instance, file, records, idx, startFound,
                   session, thrown, outcome, lastQuery, nreq, edges0, nodes0, rerun, reqs, drv>>

\* the end handler runs while the reader still has lines to deliver
ReaderEndEarly ==
    /\ pc = "reading"
    /\ idx' = 1
    /\ pc' = LoopAt(1, IF IsRelationsFile(file.name) THEN "relStart" ELSE "nodeRow")
    /\ UNCHANGED <<nodes, edges, instance, file, records, startFound,
                   session, responses, thrown, outcome, lastQuery, nreq, edges0, nodes0, rerun, reqs, drv>>

\* "end" handler up to the first store call: routing by file name
ReaderEnd ==
    /\ pc = "reading"
    /\ Len(records) = Len(file.rows)
    /\ ~file.malformed
    /\ idx' = 1
    /\ pc' = LoopAt(1, IF IsRelationsFile(file.name) THEN "relStart" ELSE "nodeRow")
    /\ UNCHANGED <<nodes, edges, instance, file, records, startFound,
                   session, responses, thrown, outcome, lastQuery, nreq, edges0, nodes0, rerun, reqs, drv>>

\* session.run throws: the loop is left, the end handler's catch is entered
Throw(kind) ==
    /\ thrown' = kind
    /\ outcome' = Append(outcome, "failed")
    /\ pc' = "caught"
    /\ UNCHANGED <<nodes, edges, idx, startFound>>

\* the next iteration starts without the result of the row's store call
NextRowNoAwait(result, rowpc) ==
    /\ outcome' = outcome
    /\ idx' = idx + 1
    /\ pc' = LoopAt(idx + 1, rowpc)
    /\ thrown' = thrown

\* the row at idx is over: next iteration, or the loop ends
NextRow(result, rowpc) ==
    /\ outcome' = Append(outcome, result)
    /\ idx' = idx + 1
    /\ pc' = LoopAt(idx + 1, rowpc)
    /\ thrown' = thrown

\* if (startResult.records.length === 0 || endResult.records.length === 0) continue
\* the row with a missing endpoint throws out of the loop
SkipRowAborts ==
    /\ outcome' = Append(outcome, "skipped")
    /\ pc' = "caught"
    /\ UNCHANGED <<nodes, edges, idx, startFound, thrown>>

SkipRow ==
    /\ NextRow("skipped", "relStart")
    /\ UNCHANGED <<nodes, edges, startFound>>

\* importNodes, one iteration
ImportNodesRow ==
    /\ pc = "nodeRow"
    /\ LET record == records[idx]
           Type == Get(record, "Type")
           properties == NodeProperties(record)
       IN  /\ lastQuery' = [kind |-> "create", idents |-> <<Type>>, row |-> idx]
           /\ \E reachable \in BOOLEAN :
                IF ~reachable THEN Throw("StoreConnectivityError")
                ELSE IF ~CreateParses(Type, DOMAIN properties) THEN Throw("StoreWriteError")
                ELSE /\ nodes' = CreateQuery(nodes, Type, ParseInt(Get(record, "ID")),
                                           properties)
                     /\ NextRow("realized", "nodeRow")
                     /\ UNCHANGED <<edges, startFound>>
    /\ UNCHANGED <<instance, file, records, session, responses,
                   nreq, edges0, nodes0, rerun, reqs, drv>>

\* importRelationship, one iteration up to the result of the start lookup
RelStartLookup ==
    /\ pc = "relStart"
    /\ LET record == records[idx]
           startId == ParseFloat(Get(record, "Start_ID"))
           startNodeType == Get(record, "Start_Node_Type")
       IN  /\ lastQuery' = [kind |-> "match", idents |-> <<startNodeType>>, row |-> idx]
           /\ \E reachable \in BOOLEAN :
                IF ~reachable THEN Throw("StoreConnectivityError")
                ELSE IF ~QueryParses(<<startNodeType>>) THEN Throw("StoreWriteError")
                ELSE /\ startFound' = LookupCount(nodes, startNodeType, startId)
                     /\ pc' = "relEnd"
                     /\ UNCHANGED <<nodes, edges, idx, thrown, outcome>>
    /\ UNCHANGED <<instance, file, records, session, responses,
                   nreq, edges0, nodes0, rerun, reqs, drv>>

\* the end lookup and the test of the two results
RelEndLookup ==
    /\ pc = "relEnd"
    /\ LET record == records[idx]
           endId == ParseFloat(Get(record, "End_ID"))
           endNodeType == Get(record, "End_Node_Type")
       IN  /\ lastQuery' = [kind |-> "match", idents |-> <<endNodeType>>, row |-> idx]
           /\ \E reachable \in BOOLEAN :
                IF ~reachable THEN Throw("StoreConnectivityError")
                ELSE IF ~QueryParses(<<endNodeType>>) THEN Throw("StoreWriteError")
                ELSE IF startFound = 0 \/ LookupCount(nodes, endNodeType, endId) = 0
                THEN SkipRow
                ELSE /\ pc' = "relMerge"
                     /\ UNCHANGED <<nodes, edges, idx, startFound, thrown, outcome>>
    /\ UNCHANGED <<instance, file, records, session, responses,
                   nreq, edges0, nodes0, rerun, reqs, drv>>

\* the MERGE query of the row
RelMerge ==
    /\ pc = "relMerge"
    /\ LET record == records[idx]
           startNodeType == Get(record, "Start_Node_Type")
           endNodeType == Get(record, "End_Node_Type")
           relationType == Get(record, "Relation")
           idents == <<startNodeType, endNodeType, relationType>>
           merged == MergeQuery(nodes, edges,
                                startNodeType, ParseFloat(Get(record, "Start_ID")),
                                endNodeType, ParseFloat(Get(record, "End_ID")),
                                relationType, RelationParameters(record))
       IN  /\ lastQuery' = [kind |-> "merge", idents |-> idents, row |-> idx]
           /\ \E reachable \in BOOLEAN :
                IF ~reachable THEN Throw("StoreConnectivityError")
                ELSE IF ~QueryParses(idents) THEN Throw("StoreWriteError")
                ELSE /\ nodes' = merged.nodes
                     /\ edges' = merged.edges
                     /\ NextRow("realized", "relStart")
                     /\ UNCHANGED startFound
    /\ UNCHANGED <<instance, file, records, session, responses,
                   nreq, edges0, nodes0, rerun, reqs, drv>>

\* the end handler logs the success and sends nothing
RespondImportedSilent ==
    /\ pc = "imported"
    /\ pc' = "finally"
    /\ UNCHANGED <<nodes, edges, instance, file, records, idx, startFound, responses,
                   session, thrown, outcome, lastQuery, nreq, edges0, nodes0, rerun, reqs, drv>>

\* end handler after the import returned: the summary
RespondImported ==
    /\ pc = "imported"
    /\ responses' = Append(responses, [status |-> 200, body |-> "message", imported |-> Len(records)])
    /\ pc' = "finally"
    /\ UNCHANGED <<nodes, edges, instance, file, records, idx, startFound,
                   session, thrown, outcome, lastQuery, nreq, edges0, nodes0, rerun, reqs, drv>>

\* the catch undoes what the batch wrote
RespondErrorRollsBack ==
    /\ pc = "caught"
    /\ responses' = Append(responses, [status |-> 500, body |-> "error", imported |-> 0])
    /\ pc' = "finally"
    /\ nodes' = nodes0
    /\ edges' = edges0
    /\ UNCHANGED <<instance, file, records, idx, startFound,
                   session, thrown, outcome, lastQuery, nreq, edges0, nodes0, rerun, reqs, drv>>

\* end handler, catch
RespondError ==
    /\ pc = "caught"
    /\ responses' = Append(responses, [status |-> 500, body |-> "error", imported |-> 0])
    /\ pc' = "finally"
    /\ UNCHANGED <<nodes, edges, instance, file, records, idx, startFound,
                   session, thrown, outcome, lastQuery, nreq, edges0, nodes0, rerun, reqs, drv>>

\* end handler, finally
CloseSession ==
    /\ pc = "finally"
    /\ session' = "closed"
    /\ pc' = "done"
    /\ UNCHANGED <<nodes, edges, instance, file, records, idx, startFound,
                   responses, thrown, outcome, lastQuery, nreq, edges0, nodes0, rerun, reqs, drv>>

Next ==
    \/ UploadNoFile
    \/ UploadFile
    \/ UploadAgain
    \/ RequestEnds
    \/ ReaderData
    \/ ReaderError
    \/ ReaderEnd
    \/ ImportNodesRow
    \/ RelStartLookup
    \/ RelEndLookup
    \/ RelMerge
    \/ RespondImported
    \/ RespondError
    \/ CloseSession

Spec == Init /\ [][Next]_vars

\* one upload, over the wider input set
NextWide ==
    \/ UploadWideFile
    \/ ReaderData
    \/ ReaderError
    \/ ReaderEnd
    \/ ImportNodesRow
    \/ RelStartLookup
    \/ RelEndLookup
    \/ RelMerge
    \/ RespondImported
    \/ RespondError
    \/ CloseSession

SpecWide == Init /\ [][NextWide]_vars

\* uploads one after the other, over the key files
NextKeys ==
    \/ UploadKeyFile
    \/ RequestEnds
    \/ ReaderData
    \/ ReaderEnd
    \/ ImportNodesRow
    \/ RelStartLookup
    \/ RelEndLookup
    \/ RelMerge
    \/ RespondImported
    \/ RespondError
    \/ CloseSession

SpecKeys == Init /\ [][NextKeys]_vars

\* the steps the request takes by itself: the reader's events and the
\* continuations of the awaited store calls
HandlerStep ==
    \/ ReaderData
    \/ ReaderError
    \/ ReaderEnd
    \/ ImportNodesRow
    \/ RelStartLookup
    \/ RelEndLookup
    \/ RelMerge
    \/ RespondImported
    \/ RespondError
    \/ CloseSession

\* every store call returns or throws and the reader delivers its events
SpecLive == Spec /\ WF_vars(HandlerStep)

-----------------------------------------------------------------------------
(* Two uploads at once: every request has its own locals of uploadCSV in     *)
(* reqs; the store is shared.                                                *)

\* what an upload in flight leaves alone: the one-at-a-time request, the driver
ConcFrame ==
    UNCHANGED <<instance, pc, file, records, idx, startFound, session, responses,
                thrown, outcome, lastQuery, nreq, edges0, nodes0, rerun, drv>>

\* driver.session() calls made so far
SessionsOpened == Cardinality({q \in Requests : reqs[q].session # 0})

\* where the import loop of a request goes after the row at i
ConcLoopAt(rq, i) ==
    IF i > Len(rq.records) THEN "imported"
    ELSE IF IsRelationsFile(rq.file.name) THEN "relStart" ELSE "nodeRow"

\* the query sent for the row at idx with the request's session
ConcQuery(rq, kind) ==
    [kind |-> kind, row |-> rq.idx, session |-> rq.session, record |-> rq.records[rq.idx]]

\* session.run of request r throws
ConcThrow(r, kind) ==
    /\ reqs' = [reqs EXCEPT ![r] = [reqs[r] EXCEPT !.pc = "caught",
                                                 !.lastQuery = ConcQuery(reqs[r], kind)]]
    /\ UNCHANGED <<nodes, edges>>

\* uploadCSV of request r: session, records, fileName, stream
ConcUpload(r) ==
    /\ reqs[r].pc = "idle"
    /\ \E f \in ConcFiles :
          reqs' = [reqs EXCEPT ![r] = [NoRequest EXCEPT !.pc = "reading", !.file = f,
                                                      !.session = SessionsOpened + 1]]
    /\ UNCHANGED <<nodes, edges>>
    /\ ConcFrame

\* records is one array of the module: every request in flight gets the row
ConcReaderDataShared(r) ==
    /\ reqs[r].pc = "reading"
    /\ Len(reqs[r].records) < Len(reqs[r].file.rows)
    /\ LET row == reqs[r].file.rows[Len(reqs[r].records) + 1]
       IN  reqs' = [q \in Requests |->
                      IF reqs[q].pc = "reading"
                      THEN [reqs[q] EXCEPT !.records = Append(@, row)]
                      ELSE reqs[q]]
    /\ UNCHANGED <<nodes, edges>>
    /\ ConcFrame

\* "data" handler of request r
ConcReaderData(r) ==
    /\ reqs[r].pc = "reading"
    /\ Len(reqs[r].records) < Len(reqs[r].file.rows)
    /\ LET row == reqs[r].file.rows[Len(reqs[r].records) + 1]
       IN  reqs' = [reqs EXCEPT ![r] = [reqs[r] EXCEPT !.records = Append(@, row)]]
    /\ UNCHANGED <<nodes, edges>>
    /\ ConcFrame

\* "end" handler of request r up to its first store call
ConcReaderEnd(r) ==
    /\ reqs[r].pc = "reading"
    /\ Len(reqs[r].records) = Len(reqs[r].file.rows)
    /\ reqs' = [reqs EXCEPT ![r] = [reqs[r] EXCEPT !.idx = 1, !.pc = ConcLoopAt(reqs[r], 1)]]
    /\ UNCHANGED <<nodes, edges>>
    /\ ConcFrame

\* importNodes of request r, one iteration
ConcImportNodesRow(r) ==
    /\ reqs[r].pc = "nodeRow"
    /\ LET rq == reqs[r]
           record == rq.records[rq.idx]
           Type == Get(record, "Type")
           properties == NodeProperties(record)
       IN  \E reachable \in BOOLEAN :
              IF ~reachable \/ ~CreateParses(Type, DOMAIN properties)
              THEN ConcThrow(r, "create")
              ELSE /\ nodes' = CreateQuery(nodes, Type, ParseInt(Get(record, "ID")), properties)
                   /\ reqs' = [reqs EXCEPT ![r] =
                                 [rq EXCEPT !.lastQuery = ConcQuery(rq, "create"),
                                            !.idx = rq.idx + 1,
                                            !.pc = ConcLoopAt(rq, rq.idx + 1)]]
                   /\ UNCHANGED edges
    /\ ConcFrame

\* importRelationship of request r: the start lookup of the row
ConcRelStartLookup(r) ==
    /\ reqs[r].pc = "relStart"
    /\ LET rq == reqs[r]
           record == rq.records[rq.idx]
           startNodeType == Get(record, "Start_Node_Type")
       IN  \E reachable \in BOOLEAN :
              IF ~reachable \/ ~QueryParses(<<startNodeType>>)
              THEN ConcThrow(r, "match")
              ELSE /\ reqs' = [reqs EXCEPT ![r] =
                                 [rq EXCEPT !.lastQuery = ConcQuery(rq, "match"),
                                            !.startFound =
                                                LookupCount(nodes, startNodeType,
                                                            ParseFloat(Get(record, "Start_ID"))),
                                            !.pc = "relEnd"]]
                   /\ UNCHANGED <<nodes, edges>>
    /\ ConcFrame

\* the end lookup of the row and the test of the two results
ConcRelEndLookup(r) ==
    /\ reqs[r].pc = "relEnd"
    /\ LET rq == reqs[r]
           record == rq.records[rq.idx]
           endNodeType == Get(record, "End_Node_Type")
           found == LookupCount(nodes, endNodeType, ParseFloat(Get(record, "End_ID")))
       IN  \E reachable \in BOOLEAN :
              IF ~reachable \/ ~QueryParses(<<endNodeType>>)
              THEN ConcThrow(r, "match")
              ELSE /\ reqs' = [reqs EXCEPT ![r] =
                                 IF rq.startFound = 0 \/ found = 0
                                 THEN [rq EXCEPT !.lastQuery = ConcQuery(rq, "match"),
                                                 !.idx = rq.idx + 1,
                                                 !.pc = ConcLoopAt(rq, rq.idx + 1)]
                                 ELSE [rq EXCEPT !.lastQuery = ConcQuery(rq, "match"),
                                                 !.pc = "relMerge"]]
                   /\ UNCHANGED <<nodes, edges>>
    /\ ConcFrame

\* the MERGE query of the row
ConcRelMerge(r) ==
    /\ reqs[r].pc = "relMerge"
    /\ LET rq == reqs[r]
           record == rq.records[rq.idx]
           startNodeType == Get(record, "Start_Node_Type")
           endNodeType == Get(record, "End_Node_Type")
           relationType == Get(record, "Relation")
           merged == MergeQuery(nodes, edges,
                                startNodeType, ParseFloat(Get(record, "Start_ID")),
                                endNodeType, ParseFloat(Get(record, "End_ID")),
                                relationType, RelationParameters(record))
       IN  \E reachable \in BOOLEAN :
              IF ~reachable \/ ~QueryParses(<<startNodeType, endNodeType, relationType>>)
              THEN ConcThrow(r, "merge")
              ELSE /\ nodes' = merged.nodes
                   /\ edges' = merged.edges
                   /\ reqs' = [reqs EXCEPT ![r] =
                                 [rq EXCEPT !.lastQuery = ConcQuery(rq, "merge"),
                                            !.idx = rq.idx + 1,
                                            !.pc = ConcLoopAt(rq, rq.idx + 1)]]
    /\ ConcFrame

\* end handler of request r after its import returned: the summary
ConcRespondImported(r) ==
    /\ reqs[r].pc = "imported"
    /\ reqs' = [reqs EXCEPT ![r] =
                  [reqs[r] EXCEPT !.pc = "finally",
                                  !.responses = Append(@, [status |-> 200,
                                                           imported |-> Len(reqs[r].records)])]]
    /\ UNCHANGED <<nodes, edges>>
    /\ ConcFrame

\* end handler of request r, catch
ConcRespondError(r) ==
    /\ reqs[r].pc = "caught"
    /\ reqs' = [reqs EXCEPT ![r] =
                  [reqs[r] EXCEPT !.pc = "finally",
                                  !.responses = Append(@, [status |-> 500, imported |-> 0])]]
    /\ UNCHANGED <<nodes, edges>>
    /\ ConcFrame

\* end handler of request r, finally
ConcCloseSession(r) ==
    /\ reqs[r].pc = "finally"
    /\ reqs' = [reqs EXCEPT ![r] = [reqs[r] EXCEPT !.pc = "done", !.closed = TRUE]]
    /\ UNCHANGED <<nodes, edges>>
    /\ ConcFrame

NextConc ==
    \E r \in Requests :
        \/ ConcUpload(r)
        \/ ConcReaderData(r)
        \/ ConcReaderEnd(r)
        \/ ConcImportNodesRow(r)
        \/ ConcRelStartLookup(r)
        \/ ConcRelEndLookup(r)
        \/ ConcRelMerge(r)
        \/ ConcRespondImported(r)
        \/ ConcRespondError(r)
        \/ ConcCloseSession(r)

SpecConc == Init /\ [][NextConc]_vars

-----------------------------------------------------------------------------
(* Neo4jDriverSingleton.  drv.instance is the static field (0: undefined),   *)
(* drv.made the number of drivers created, drv.open the drivers not closed,  *)
(* drv.closing the drivers the closeDriver calls in flight wait for, drv.got *)
(* the driver of the last getInstance (0 once a closeDriver call was made or *)
(* has returned since).                                                      *)

DriverFrame ==
    UNCHANGED <<nodes, edges, instance, pc, file, records, idx, startFound, session,
                responses, thrown, outcome, lastQuery, nreq, edges0, nodes0, rerun, reqs>>

\* s without its element at i
RemoveAt(s, i) == SubSeq(s, 1, i - 1) \o SubSeq(s, i + 1, Len(s))

\* getInstance: the driver is created when the field is not set
GetInstance ==
    /\ drv.instance = 0 => drv.made < MaxDrivers
    /\ drv' = IF drv.instance = 0
              THEN [drv EXCEPT !.instance = drv.made + 1, !.made = drv.made + 1,
                               !.open = drv.open \cup {drv.made + 1},
                               !.got = drv.made + 1]
              ELSE [drv EXCEPT !.got = drv.instance]
    /\ DriverFrame

\* closeDriver with no driver in the field
CloseDriverNone ==
    /\ drv.instance = 0
    /\ UNCHANGED drv
    /\ DriverFrame

\* closeDriver up to its await: close() of the driver in the field is started
CloseDriverBegin ==
    /\ drv.instance # 0
    /\ Len(drv.closing) < MaxPending
    /\ drv' = [drv EXCEPT !.closing = Append(@, drv.instance), !.got = 0]
    /\ DriverFrame

\* closeDriver after its await: the driver is closed, the field is cleared
CloseDriverEnd ==
    /\ \E i \in DOMAIN drv.closing :
          drv' = [drv EXCEPT !.open = @ \ {drv.closing[i]},
                             !.instance = 0,
                             !.closing = RemoveAt(@, i),
                             !.got = 0]
    /\ DriverFrame

NextDriver ==
    \/ GetInstance
    \/ CloseDriverNone
    \/ CloseDriverBegin
    \/ CloseDriverEnd

SpecDriver == Init /\ [][NextDriver]_vars

-----------------------------------------------------------------------------
(* Product handlers (product.controller.ts), countNodes and getNodes, next   *)
(* to the CSV import, one request at a time.  elementId of a node is its     *)
(* index in nodes.  A handler is one step: its session, its queries, its     *)
(* response and its finally.                                                 *)

Null == [t |-> "null"]
TrueValue == [t |-> "bool", b |-> TRUE]
FalseValue == [t |-> "bool", b |-> FALSE]
T_Gadget == <<"G", "a", "d", "g", "e", "t">>
T_Seems == <<"S", "E", "E", "M", "S">>
ProductNames == {T_Widget, T_Gadget}

\* CREATE (p:Product {Name: $name, ..., Voided: false})
NewProduct(name) ==
    [label |-> T_Product, ID |-> Null, props |-> [Name |-> name, Voided |-> FalseValue]]

\* SET p.k = v
SetProperty(n, k, v) ==
    [n EXCEPT !.props = [j \in DOMAIN n.props \cup {k} |-> IF j = k THEN v ELSE n.props[j]]]

IsProduct(ns, i) == i \in DOMAIN ns /\ ns[i].label = T_Product

\* MATCH (p:Product) WHERE p.Voided = false
NotVoided(ns) ==
    {i \in DOMAIN ns : /\ IsProduct(ns, i)
                       /\ "Voided" \in DOMAIN ns[i].props
                       /\ ns[i].props.Voided = FalseValue}

\* element ids a request can name: those of the store and one that is not
ElementIds == 1..(Len(nodes) + 1)

\* files of the imports that run between the product requests
ProductFiles ==
    [name : {T_NodesCsv}, rows : {<<NodeRow7>>}, malformed : BOOLEAN, attached : {TRUE}]
    \cup
    [name : {T_RelationsCsv}, rows : {<<RelRow(<<"7">>, T_Contains, <<"3">>)>>},
     malformed : {FALSE}, attached : {TRUE}]

\* the store holds an invoice, an imported product and a product made by
\* createProduct
InitProducts ==
    /\ nodes = <<Invoice1, Product7, NewProduct(T_Widget)>>
    /\ edges = {}
    /\ instance = TRUE
    /\ pc = "idle"
    /\ file = NoFile
    /\ records = <<>>
    /\ idx = 0
    /\ startFound = 0
    /\ session = "none"
    /\ responses = <<>>
    /\ thrown = "none"
    /\ outcome = <<>>
    /\ lastQuery = NoQuery
    /\ nreq = 0
    /\ edges0 = {}
    /\ nodes0 = nodes
    /\ rerun = FALSE
    /\ reqs = [r \in Requests |-> NoRequest]
    /\ drv = DriverAtStart

\* a handler from its call to its return: the response it sent and what
\* became of the session it opened ("none": it opened no session)
Handled(kind, status, body, sess) ==
    /\ pc = "idle"
    /\ nreq < MaxOps
    /\ nreq' = nreq + 1
    /\ pc' = "done"
    /\ lastQuery' = [kind |-> kind, idents |-> <<>>, row |-> 0]
    /\ responses' = <<[status |-> status, body |-> body, imported |-> 0]>>
    /\ session' = sess
    /\ edges0' = edges
    /\ nodes0' = nodes
    /\ UNCHANGED <<instance, file, records, idx, startFound, thrown, outcome,
                   rerun, reqs, drv>>

\* a client uploads one of the product files
UploadProductFile ==
    /\ pc = "idle"
    /\ rerun' = FALSE
    /\ \E f \in ProductFiles : StartUpload(f)

createProduct ==
    \E name \in ProductNames, valid, reachable \in BOOLEAN :
        IF ~valid
        THEN Handled("createProduct", 400, {}, "closed") /\ UNCHANGED <<nodes, edges>>
        ELSE IF ~reachable
        THEN Handled("createProduct", 500, {}, "closed") /\ UNCHANGED <<nodes, edges>>
        ELSE /\ nodes' = Append(nodes, NewProduct(name))
             /\ Handled("createProduct", 201, {Len(nodes) + 1}, "closed")
             /\ UNCHANGED edges

\* page -1 is refused; a page holds limit = 10 products, more than the store has
getAllProducts ==
    \E page \in {-1, 1, 2}, reachable \in BOOLEAN :
        /\ UNCHANGED <<nodes, edges>>
        /\ IF page < 1 THEN Handled("getAllProducts", 400, {}, "closed")
           ELSE IF ~reachable THEN Handled("getAllProducts", 500, {}, "closed")
           ELSE Handled("getAllProducts", 200,
                        IF page = 1 THEN NotVoided(nodes) ELSE {}, "closed")

\* the SET clause also takes Voided from the request body
updateProductWithVoided ==
    \E id \in ElementIds, name \in ProductNames, valid, reachable \in BOOLEAN :
        IF ~valid
        THEN Handled("updateProduct", 400, {}, "closed") /\ UNCHANGED <<nodes, edges>>
        ELSE IF ~reachable
        THEN Handled("updateProduct", 500, {}, "closed") /\ UNCHANGED <<nodes, edges>>
        ELSE IF ~IsProduct(nodes, id)
        THEN Handled("updateProduct", 404, {}, "closed") /\ UNCHANGED <<nodes, edges>>
        ELSE /\ nodes' = [nodes EXCEPT ![id] =
                            SetProperty(SetProperty(nodes[id], "Name", name),
                                        "Voided", FalseValue)]
             /\ Handled("updateProduct", 200, {id}, "closed")
             /\ UNCHANGED edges

updateProduct ==
    \E id \in ElementIds, name \in ProductNames, valid, reachable \in BOOLEAN :
        IF ~valid
        THEN Handled("updateProduct", 400, {}, "closed") /\ UNCHANGED <<nodes, edges>>
        ELSE IF ~reachable
        THEN Handled("updateProduct", 500, {}, "closed") /\ UNCHANGED <<nodes, edges>>
        ELSE IF ~IsProduct(nodes, id)
        THEN Handled("updateProduct", 404, {}, "closed") /\ UNCHANGED <<nodes, edges>>
        ELSE /\ nodes' = [nodes EXCEPT ![id] = SetProperty(nodes[id], "Name", name)]
             /\ Handled("updateProduct", 200, {id}, "closed")
             /\ UNCHANGED edges

softDeleteProduct ==
    \E id \in ElementIds, reachable \in BOOLEAN :
        IF ~reachable
        THEN Handled("softDeleteProduct", 500, {}, "closed") /\ UNCHANGED <<nodes, edges>>
        ELSE IF ~IsProduct(nodes, id)
        THEN Handled("softDeleteProduct", 404, {}, "closed") /\ UNCHANGED <<nodes, edges>>
        ELSE /\ nodes' = [nodes EXCEPT ![id] = SetProperty(nodes[id], "Voided", TrueValue)]
             /\ Handled("softDeleteProduct", 200, {id}, "closed")
             /\ UNCHANGED edges

\* MATCH (p:Product {Name: $name}) WHERE p.Voided = false
getProductByName ==
    \E name \in ProductNames, reachable \in BOOLEAN :
        LET found == {i \in NotVoided(nodes) :
                         "Name" \in DOMAIN nodes[i].props /\ nodes[i].props.Name = name}
        IN  /\ UNCHANGED <<nodes, edges>>
            /\ IF ~reachable THEN Handled("getProductByName", 500, {}, "closed")
               ELSE IF found = {} THEN Handled("getProductByName", 404, {}, "closed")
               ELSE Handled("getProductByName", 200, found, "closed")

\* the 400 is sent before the session is opened
createProductRelationship ==
    \E sourceId, targetId \in ElementIds, valid, reachable \in BOOLEAN :
        IF ~valid
        THEN Handled("createProductRelationship", 400, {}, "none")
             /\ UNCHANGED <<nodes, edges>>
        ELSE IF ~reachable
        THEN Handled("createProductRelationship", 500, {}, "closed")
             /\ UNCHANGED <<nodes, edges>>
        ELSE /\ edges' = IF IsProduct(nodes, sourceId) /\ IsProduct(nodes, targetId)
                         THEN edges \cup {[start |-> sourceId, type |-> T_Seems,
                                           end |-> targetId, props |-> <<>>]}
                         ELSE edges
             /\ Handled("createProductRelationship", 201, {}, "closed")
             /\ UNCHANGED nodes

\* the schema is checked before the session is opened; nothing closes it
countNodes ==
    \E valid, reachable \in BOOLEAN :
        /\ UNCHANGED <<nodes, edges>>
        /\ IF ~valid THEN Handled("countNodes", 400, {}, "none")
           ELSE IF ~reachable THEN Handled("countNodes", 500, {}, "open")
           ELSE Handled("countNodes", 200, {}, "open")

getNodes ==
    \E reachable \in BOOLEAN :
        /\ UNCHANGED <<nodes, edges>>
        /\ IF ~reachable THEN Handled("getNodes", 500, {}, "closed")
           ELSE Handled("getNodes", 200, DOMAIN nodes, "closed")

NextProducts ==
    \/ createProduct
    \/ getAllProducts
    \/ updateProduct
    \/ softDeleteProduct
    \/ getProductByName
    \/ createProductRelationship
    \/ countNodes
    \/ getNodes
    \/ UploadProductFile
    \/ RequestEnds
    \/ ReaderData
    \/ ReaderError
    \/ ReaderEnd
    \/ ImportNodesRow
    \/ RelStartLookup
    \/ RelEndLookup
    \/ RelMerge
    \/ RespondImported
    \/ RespondError
    \/ CloseSession

SpecProducts == InitProducts /\ [][NextProducts]_vars

TypeOK ==
    /\ pc \in {"idle", "reading", "nodeRow", "relStart", "relEnd", "relMerge",
               "imported", "caught", "finally", "done"}
    /\ session \in {"none", "open", "closed"}
    /\ nreq \in 0..MaxRequests
    /\ Len(outcome) <= Len(records)

-----------------------------------------------------------------------------
(* Properties *)

IsRelImport == file.attached /\ IsRelationsFile(file.name)
IsNodeImport == file.attached /\ ~IsRelationsFile(file.name)
Status == IF responses = <<>> THEN 0 ELSE responses[Len(responses)].status
Realized == Cardinality({i \in DOMAIN outcome : outcome[i] = "realized"})

\* the endpoints a relationship row resolves to in the store
StartMatches(record) ==
    MatchNodes(nodes, Get(record, "Start_Node_Type"), ParseFloat(Get(record, "Start_ID")))
EndMatches(record) ==
    MatchNodes(nodes, Get(record, "End_Node_Type"), ParseFloat(Get(record, "End_ID")))
Resolvable(record) == StartMatches(record) # {} /\ EndMatches(record) # {}

EdgesOf(es, s, rel, e) == {x \in es : x.start = s /\ x.type = rel /\ x.end = e}

\* C1: when the store rejects the creation of one row of a node file, that row
\* is recorded as a failure and every other row of the file still has its node
\* created: at the end of a node import during which the store stayed
\* reachable, every row has an outcome, "realized" when the store accepts its
\* query and "failed" when it rejects it.
C1_RowIndependence ==
    (pc = "done" /\ IsNodeImport /\ ~file.malformed /\ thrown # "StoreConnectivityError")
    => /\ Len(outcome) = Len(file.rows)
       /\ \A i \in DOMAIN outcome :
            outcome[i] = IF CreateParses(Get(file.rows[i], "Type"),
                                         DOMAIN NodeProperties(file.rows[i]))
                         THEN "realized" ELSE "failed"

\* C2: a relationship row with an endpoint lookup that returns nothing is
\* skipped without an edge and without an error, and the rows whose endpoints
\* exist are still realized: the loop always goes on past a skipped row, and a
\* relationship import in which the store raised no error answers 200, has
\* gone through every row, has realized exactly the rows whose two endpoints
\* exist (an edge of the row's pattern joins each resolved pair) and skipped
\* the others.
C2_Isolation ==
    /\ \A i \in DOMAIN outcome : outcome[i] = "skipped" => idx > i
    /\ (pc \in {"finally", "done"} /\ IsRelImport /\ ~file.malformed /\ thrown = "none")
       => /\ Status = 200
          /\ Len(outcome) = Len(file.rows)
          /\ \A i \in DOMAIN outcome :
               LET record == file.rows[i] IN
               IF Resolvable(record)
               THEN /\ outcome[i] = "realized"
                    /\ \A s \in StartMatches(record) : \A e \in EndMatches(record) :
                         \E x \in edges :
                            EdgeMatches(x, s, Get(record, "Relation"), e,
                                        RelationParameters(record))
               ELSE outcome[i] = "skipped"

\* a finished batch with a skipped row followed by a realized one
C2_Witness ==
    /\ pc = "done" /\ IsRelImport /\ thrown = "none" /\ Status = 200
    /\ Len(outcome) = 2 /\ outcome[1] = "skipped" /\ outcome[2] = "realized"
    /\ edges # {}

\* C3: running the same relationship file twice leaves at most one edge of a
\* given type between a given pair of resolved endpoints after either run, and
\* as many after the second run as after the first: after a relationship import
\* answered 200, every triple of a row that had at most one edge before the run
\* has at most one edge, and when the run repeats the file the run before it
\* imported, the triples of its rows have as many edges as before the run.
C3_Idempotence ==
    (pc = "done" /\ IsRelImport /\ Status = 200)
    => \A i \in DOMAIN file.rows :
         LET record == file.rows[i]
             rel == Get(record, "Relation") IN
         \A s \in StartMatches(record) : \A e \in EndMatches(record) :
            /\ Cardinality(EdgesOf(edges0, s, rel, e)) <= 1
               => Cardinality(EdgesOf(edges, s, rel, e)) <= 1
            /\ rerun => Cardinality(EdgesOf(edges, s, rel, e))
                        = Cardinality(EdgesOf(edges0, s, rel, e))

\* C4: there is at most one imported edge per (source, type, target) triple; a
\* row for an existing triple with other property values adds no parallel edge.
C4_OneEdgePerTriple ==
    \A x \in edges : \A y \in edges :
        (x.start = y.start /\ x.type = y.type /\ x.end = y.end) => x = y

\* C5: no finished request leaves its session open, whether it ended by a
\* successful import, a store failure in the batch or a reader error.
C5_SessionReleased == pc = "done" => session # "open"

\* C6: a store error on the edge creation of a relationship row is recorded
\* for that row and the remaining rows are still processed: at the end of a
\* relationship import during which the store stayed reachable, every row of
\* the file has an outcome.
C6_Phase2Isolated ==
    (pc = "done" /\ IsRelImport /\ ~file.malformed /\ thrown # "StoreConnectivityError")
    => Len(outcome) = Len(file.rows)

\* C7: a label or relation value that is not an identifier is never
\* interpolated into a query sent to the store.
C7_IdentifierRestriction ==
    \A i \in DOMAIN lastQuery.idents : IsIdentifier(lastQuery.idents[i])

\* a step of the relationship loop leaves the nodes as they are and creates
\* edges only between nodes matching the row's endpoints
NoPlaceholderStep ==
    pc \in {"relStart", "relEnd", "relMerge"}
    => /\ nodes' = nodes
       /\ \A x \in edges' \ edges :
             /\ x.start \in StartMatches(records[idx])
             /\ x.end \in EndMatches(records[idx])

\* C8: a relationship import never creates a node, and every edge it creates
\* joins two nodes that exist when the row is processed and carry the row's
\* endpoint labels and keys.
C8_NoPlaceholderNodes == [][NoPlaceholderStep]_vars

\* a relationship import ended after a row whose target is not in the store,
\* and the store still holds the two nodes it held, without an edge
C8_Witness ==
    /\ pc = "done" /\ IsRelImport /\ Status = 200
    /\ outcome # <<>> /\ outcome[1] = "skipped"
    /\ nodes = <<Invoice1, Product7>> /\ edges = {}

\* C9: the response to a completed import reports the number of rows
\* realized; a skipped or failed row is not counted.
C9_SummaryCounts ==
    (pc = "done" /\ Status = 200) => responses[Len(responses)].imported = Realized

\* C10: a request without a file is answered 400 (alone), with no session
\* opened and no store operation issued.
C10_MissingFile ==
    (pc # "idle" /\ ~file.attached)
    => /\ pc = "done"
       /\ responses = <<[status |-> 400, body |-> "error", imported |-> 0]>>
       /\ session = "none"
       /\ lastQuery = NoQuery
       /\ outcome = <<>>
       /\ edges = edges0

\* a request without a file has been answered
C10_Witness == ~file.attached /\ pc = "done" /\ Status = 400


\* C11: a request whose file cannot be decoded, or during which the store is
\* unreachable, sends no success summary, and ends with a single response,
\* a 500 carrying an error.
C11_RequestLevelErrors ==
    (file.attached /\ (file.malformed \/ thrown = "StoreConnectivityError"))
    => /\ \A i \in DOMAIN responses :
            responses[i].status = 500 /\ responses[i].body = "error"
       /\ pc = "done" => Len(responses) = 1

\* a request ended by the reader's error after a row had been read
C11_Witness ==
    /\ pc = "done" /\ file.malformed /\ records # <<>>
    /\ responses = <<[status |-> 500, body |-> "error", imported |-> 0]>>

\* C12: the node created for a node row has the row's Type as label and, as
\* properties, the ID column and every remaining column, each passed through
\* the type coercion.
C12_NodeRowsCoerced ==
    (IsNodeImport /\ outcome # <<>> /\ outcome[Len(outcome)] = "realized")
    => LET record == records[Len(outcome)] IN
       nodes[Len(nodes)] =
          [label |-> Get(record, "Type"),
           ID |-> Coerce(Get(record, "ID")),
           props |-> [k \in DOMAIN record \ {"ID", "Type"} |-> Coerce(record[k])]]

\* the row Invoice,1,Product,7,CONTAINS,3 of the end-to-end scenario
ScenarioRow == RelRow(<<"7">>, T_Contains, <<"3">>)

\* C13: relations.csv with the single row Invoice,1,Product,7,CONTAINS,3, the
\* store reachable and holding Invoice{ID:1} and Product{ID:7} and no edge,
\* leaves exactly one edge: CONTAINS, from the Invoice node to the Product node, with the one
\* property Quantity = 3 (a number).
C13_RelationshipScenario ==
    (/\ pc \in {"imported", "finally", "done"}
     /\ file.attached /\ file.name = T_RelationsCsv /\ file.rows = <<ScenarioRow>>
     /\ ~file.malformed /\ thrown = "none"
     /\ nodes0 = <<Invoice1, Product7>> /\ edges0 = {})
    => edges = {[start |-> 1, type |-> T_Contains, end |-> 2,
                 props |-> [Quantity |-> [t |-> "num", m |-> 3, e |-> 0]]]}

\* the scenario has run to its response
C13_Witness ==
    /\ pc = "done" /\ Status = 200
    /\ file.name = T_RelationsCsv /\ file.rows = <<ScenarioRow>>
    /\ nodes0 = <<Invoice1, Product7>> /\ edges0 = {} /\ edges # {}


\* when a query has been sent for a row, the rows before it have their
\* outcomes, none of them a failure, and no later row has one
SequentialOrder ==
    lastQuery.kind # "none"
    => /\ lastQuery.row \in DOMAIN records
       /\ records[lastQuery.row] = file.rows[lastQuery.row]
       /\ Len(outcome) \in {lastQuery.row - 1, lastQuery.row}
       /\ \A i \in 1..(lastQuery.row - 1) : outcome[i] \in {"realized", "skipped"}

\* the queries of a request go through the rows in file order, one row at a time
SequentialStep ==
    \/ lastQuery' = NoQuery
    \/ lastQuery'.row \in {lastQuery.row, lastQuery.row + 1}

\* C17: within a request the rows are processed in file order, and no store
\* operation of a row is issued before every operation of the row before it
\* has completed with success, skip or failure.
C17_StrictlySequential == []SequentialOrder /\ [][SequentialStep]_vars

\* the end lookup of the second row, the first row being over
C17_Witness ==
    /\ pc = "relMerge" /\ lastQuery.row = 2 /\ lastQuery.kind = "match"
    /\ outcome = <<"realized">>

\* rows of the file with the label and the business key of its row i
SameKeyRows(i) ==
    {j \in DOMAIN file.rows :
        /\ Get(file.rows[j], "Type") = Get(file.rows[i], "Type")
        /\ ParseInt(Get(file.rows[j], "ID")) = ParseInt(Get(file.rows[i], "ID"))}

\* C18: a node import answered 200 has added one node per row, whatever the
\* store held; after the same file was imported twice in a row, the store
\* holds at least two nodes per row for each (label, business key) of the file.
C18_NoDeduplication ==
    (pc = "done" /\ IsNodeImport /\ Status = 200)
    => /\ Len(nodes) = Len(nodes0) + Len(file.rows)
       /\ rerun =>
            \A i \in DOMAIN file.rows :
                Cardinality(MatchNodes(nodes, Get(file.rows[i], "Type"),
                                       ParseInt(Get(file.rows[i], "ID"))))
                >= 2 * Cardinality(SameKeyRows(i))

\* the same node file has been imported twice in a row
C18_Witness ==
    /\ pc = "done" /\ IsNodeImport /\ Status = 200 /\ rerun
    /\ file.rows # <<>>

\* C19: nothing written is undone: the nodes and edges held when the request
\* was received are still there, and after a request stopped by a store error
\* the node of every row realized before the error, or the edge of every such
\* row between each of its resolved pairs, is in the store.
C19_NoRollback ==
    /\ Len(nodes) >= Len(nodes0)
    /\ SubSeq(nodes, 1, Len(nodes0)) = nodes0
    /\ edges0 \subseteq edges
    /\ (pc \in {"caught", "finally", "done"} /\ thrown # "none")
       => /\ IsNodeImport => Len(nodes) = Len(nodes0) + Realized
          /\ IsRelImport =>
               \A i \in DOMAIN outcome :
                  outcome[i] = "realized" =>
                     \A s \in StartMatches(records[i]) : \A e \in EndMatches(records[i]) :
                        \E x \in edges :
                           EdgeMatches(x, s, Get(records[i], "Relation"), e,
                                       RelationParameters(records[i]))

\* a node import stopped by a store error after it had created a node
C19_Witness ==
    /\ pc = "done" /\ IsNodeImport /\ thrown # "none" /\ Status = 500
    /\ outcome = <<"realized", "failed">>
    /\ Len(nodes) = Len(nodes0) + 1

\* the first match of a lookup, in the store's order
First(S) == CHOOSE m \in S : \A n \in S : m <= n

\* C20: every edge a relationship import creates joins the first match of the
\* source lookup of one of its rows to the first match of the target lookup of
\* that row; no edge is created for the other matching pairs.
C20_FirstMatchOnly ==
    IsRelImport
    => \A x \in edges \ edges0 :
          \E i \in DOMAIN outcome :
             /\ outcome[i] = "realized"
             /\ x.type = Get(records[i], "Relation")
             /\ x.start = First(StartMatches(records[i]))
             /\ x.end = First(EndMatches(records[i]))


\* the Quantity column of the only row of the file
QuantityText == Get(file.rows[1], "Quantity")

\* a relationship import of one row whose edge has been merged
OneRowMerged ==
    /\ IsRelImport /\ Len(file.rows) = 1 /\ outcome = <<"realized">>
    /\ "Quantity" \in DOMAIN file.rows[1]

\* C14: the edge of a row carries for the property text "42" the number 42,
\* for "42.5" the number 42.5, for "true" and "True" the Boolean true, for
\* "abc" the String "abc" and for the empty text the empty String.
C14_CoercionResults ==
    OneRowMerged
    => \A x \in edges :
          /\ QuantityText = T_42 => x.props.Quantity = [t |-> "num", m |-> 42, e |-> 0]
          /\ QuantityText = T_42_5 => x.props.Quantity = [t |-> "num", m |-> 425, e |-> 1]
          /\ QuantityText \in {T_True, T_TrueCapital}
                => x.props.Quantity = [t |-> "bool", b |-> TRUE]
          /\ QuantityText = T_Abc => x.props.Quantity = [t |-> "str", s |-> T_Abc]
          /\ QuantityText = <<>> => x.props.Quantity = [t |-> "str", s |-> <<>>]

\* the row with the property text "True" has been merged
C14_Witness ==
    /\ OneRowMerged /\ pc = "done" /\ Status = 200
    /\ QuantityText = T_TrueCapital /\ edges # {}

\* the values a query parameter can take: a number, a Boolean or a String
IsScalar(v) ==
    \/ v.t = "num" /\ v.m \in Int /\ v.e \in Nat
    \/ v.t = "bool" /\ v.b \in BOOLEAN
    \/ v.t = "str" /\ v.s = QuantityText

\* C15: for every text of the property column the conversion yields a typed
\* scalar, a number, a Boolean or the text itself as a String, and the
\* row is not failed by it: the merge that carries the value is realized
\* whenever the store is reachable and both endpoints exist.
C15_CoercionTotal ==
    /\ OneRowMerged => \A x \in edges : IsScalar(x.props.Quantity)
    /\ (IsRelImport /\ Len(file.rows) = 1 /\ outcome = <<"failed">>)
       => thrown = "StoreConnectivityError"

\* a row whose property text is neither a number nor a Boolean has been merged
C15_Witness ==
    /\ OneRowMerged /\ pc = "done" /\ Status = 200
    /\ QuantityText = <<"a", "-", "4">>
    /\ \E x \in edges : x.props.Quantity.t = "str"

\* C16: relationship lookups and merges are sent only for files whose name
\* contains "relations" as written, node creations only for the other files,
\* whatever the rows hold; "Relations.csv" goes to the node importer.
C16_RoutingByName ==
    /\ (lastQuery.kind \in {"match", "merge"} \/ pc \in {"relStart", "relEnd", "relMerge"})
       => file.name \in {T_RelationsCsv, T_MyRelationsCsv}
    /\ (lastQuery.kind = "create" \/ pc = "nodeRow")
       => file.name \in {T_NodesCsv, T_RelationsCapitalCsv}

\* "Relations.csv" holding relationship rows is handled by the node importer
C16_Witness ==
    /\ file.name = T_RelationsCapitalCsv
    /\ lastQuery.kind = "create" /\ lastQuery.row = 2
    /\ \A i \in DOMAIN file.rows : "Relation" \in DOMAIN file.rows[i]


\* C21: a property text that is a number only in its prefix is not stored as
\* a number: "12abc" and "2024-01-31" are stored as the Strings they are, and
\* no text holding a letter is stored as a number.
C21_FullParsePrecedence ==
    OneRowMerged
    => \A x \in edges :
          /\ QuantityText \in {T_12abc, T_Date}
                => x.props.Quantity = [t |-> "str", s |-> QuantityText]
          /\ (\E i \in DOMAIN QuantityText : IsLetter(QuantityText[i]))
                => x.props.Quantity.t # "num"

\* C22: the property text " true " is stored as the Boolean true and " 42 "
\* as the number 42; a text stored as a String is stored as it was written,
\* white space included.
C22_WhitespaceHandling ==
    OneRowMerged
    => \A x \in edges :
          /\ QuantityText = T_SpTrueSp => x.props.Quantity = [t |-> "bool", b |-> TRUE]
          /\ QuantityText = T_Sp42Sp => x.props.Quantity = [t |-> "num", m |-> 42, e |-> 0]
          /\ x.props.Quantity.t = "str" => x.props.Quantity.s = QuantityText


\* the nodes imported from a node row of label L whose ID text was k
ImportedWithKey(L, k) ==
    {n \in DOMAIN nodes :
        /\ nodes[n].label = L
        /\ "Code" \in DOMAIN nodes[n].props
        /\ nodes[n].props.Code = k}

\* C23: every node imported from a row with label L and ID text k is among
\* the nodes the end lookup of a relationship row finds for End_Node_Type L
\* and End_ID k, whether k is a whole number, has a fraction or is no number.
C23_BusinessKeyRoundTrip ==
    (IsRelImport /\ pc \notin {"idle", "reading"})
    => \A i \in DOMAIN records :
          ImportedWithKey(Get(records[i], "End_Node_Type"), Get(records[i], "End_ID"))
             \subseteq EndMatches(records[i])


\* C25: a request never has two responses, and once it is over, whether it
\* had no file, a reader error, a failed import or a complete one, it has
\* exactly one.
C25_ExactlyOneResponse ==
    /\ Len(responses) <= 1
    /\ pc \in {"finally", "done"} => Len(responses) = 1
    /\ pc \in {"reading", "nodeRow", "relStart", "relEnd", "relMerge", "imported", "caught"}
          => responses = <<>>

\* a request whose import failed is over
C25_Witness ==
    /\ pc = "done" /\ file.attached /\ thrown = "StoreWriteError"
    /\ Len(responses) = 1 /\ Status = 500

\* C26: a query is sent to the store only after the reader delivered every
\* row of the file without an error, and a request whose reader reported an
\* error leaves the nodes and the edges as they were when it was received.
C26_ParseBeforeWrite ==
    /\ lastQuery.kind # "none" => records = file.rows /\ ~file.malformed
    /\ (file.attached /\ file.malformed) => nodes = nodes0 /\ edges = edges0

\* the first query of a file of two rows, both delivered
C26_Witness ==
    /\ lastQuery.kind # "none" /\ lastQuery.row = 1 /\ outcome = <<>>
    /\ Len(records) = 2 /\ Len(file.rows) = 2


\* C27: a request that has started to read its file eventually has sent its
\* response and closed its session.
C27_EveryUploadTerminates ==
    (pc = "reading") ~> (pc = "done" /\ responses # <<>> /\ session = "closed")


\* C24: while two uploads run interleaved, each request holds a prefix of the
\* rows of its own file, sends its queries for its own rows, of the kind its
\* own file name selects, on its own session, which no other request has,
\* and reports on success the number of rows of its own file.
C24_RequestIsolation ==
    \A r \in Requests :
        LET rq == reqs[r] IN
        /\ Len(rq.records) <= Len(rq.file.rows)
        /\ rq.records = SubSeq(rq.file.rows, 1, Len(rq.records))
        /\ rq.lastQuery.kind # "none"
              => /\ rq.lastQuery.session = rq.session
                 /\ rq.lastQuery.record = rq.file.rows[rq.lastQuery.row]
                 /\ (rq.lastQuery.kind = "create") = (rq.file.name = T_NodesCsv)
        /\ \A i \in DOMAIN rq.responses :
              rq.responses[i].status = 200
                 => rq.responses[i].imported = Len(rq.file.rows)
        /\ \A q \in Requests \ {r} : rq.session # 0 => reqs[q].session # rq.session

\* a node import and a relationship import of different lengths are both in
\* their loops
C24_Witness ==
    /\ reqs[1].pc = "nodeRow" /\ reqs[1].idx = 2
    /\ reqs[2].pc = "relMerge" /\ reqs[2].idx = 1
    /\ Len(reqs[1].file.rows) = 2 /\ Len(reqs[2].file.rows) = 1


\* at most one driver is open, and it is the one in the field
OneDriverHeld ==
    /\ Cardinality(drv.open) <= 1
    /\ drv.instance # 0 => drv.open = {drv.instance}

\* a getInstance that follows a getInstance, no closeDriver call having been
\* made or having returned in between, returns the same driver
SameDriverStep ==
    (drv.got # 0 /\ drv'.got # 0) => drv'.got = drv.got

\* C28: at most one driver is open at a time, the one in the field, and
\* consecutive getInstance calls with no closeDriver in between return the
\* same driver.
C28_DriverSingleton == []OneDriverHeld /\ [][SameDriverStep]_vars


\* the handlers that call driver.session()
SessionHandlers ==
    {"createProduct", "getAllProducts", "updateProduct", "softDeleteProduct",
     "getProductByName", "createProductRelationship", "countNodes", "getNodes"}

\* C29: a request that is over, of the product handlers, of countNodes or of
\* getNodes, whatever response it sent, has no session that it opened and
\* did not close.
C29_HandlersCloseSession ==
    (pc = "done" /\ lastQuery.kind \in SessionHandlers)
    => session \in {"none", "closed"}

IsVoided(n) == "Voided" \in DOMAIN n.props /\ n.props.Voided = TrueValue

\* a product whose Voided flag is true keeps it true in every step
VoidedStays ==
    \A i \in DOMAIN nodes :
        IsVoided(nodes[i]) => i \in DOMAIN nodes' /\ IsVoided(nodes'[i])

\* no 200 response of getAllProducts or getProductByName lists a voided product
VoidedHidden ==
    (pc = "done" /\ lastQuery.kind \in {"getAllProducts", "getProductByName"}
     /\ Status = 200)
    => \A i \in responses[1].body : ~IsVoided(nodes[i])

\* C30: once a product is soft-deleted its Voided flag stays true under
\* every later create, update, soft delete, relationship and CSV import, and
\* no later getAllProducts or getProductByName response holds it.
C30_SoftDeletePermanent == []VoidedHidden /\ [][VoidedStays]_vars

\* a product was soft-deleted and updated afterwards, and a later
\* getAllProducts listed the other products
C30_Witness ==
    /\ pc = "done" /\ lastQuery.kind = "getAllProducts" /\ Status = 200
    /\ responses[1].body # {}
    /\ \E i \in DOMAIN nodes : IsVoided(nodes[i]) /\ nodes[i].props.Name = T_Gadget

====
